---- MODULE Spec2Model ----
(***************************************************************************)
(* A model of avb/utils/datasets.py: the MNIST loader (load_mnist with its *)
(* inner helpers convert_to_one_hot and binarise, and the record reader    *)
(* _load_mnist_from_file) and the two synthetic generators load_8schools   *)
(* and load_npoints.                                                       *)
(*                                                                         *)
(* Conventions.  A numpy array is a sequence (a 2-D array a sequence of    *)
(* rows); numpy index i is position i + 1.  A real number is a pair        *)
(* <<n, d>> with d > 0 standing for n / d, so that byte / 255. and the     *)
(* comparison with a threshold are exact.  The filesystem is the variable  *)
(* disk; the outcome of the last call is the variable last.                *)
(***************************************************************************)
EXTENDS Integers, Sequences, FiniteSets, TLC

VARIABLES disk, last

vars == <<disk, last>>

(***************************************************************************)
(* Bounds of the model.                                                    *)
(***************************************************************************)
\* longest label vector handed to convert_to_one_hot on its own
MaxLabels == 2
\* largest label value (and, negated, smallest) in those vectors
MaxLabel == 1
\* longest pixel array handed to binarise on its own
MaxPixels == 2
\* largest n handed to load_npoints
MaxN == 4

(***************************************************************************)
(* Generic helpers.                                                        *)
(***************************************************************************)
RECURSIVE SeqsUpTo(_, _)
\* all sequences over S of length 0..n
SeqsUpTo(S, n) ==
    IF n = 0 THEN {<<>>}
    ELSE LET shorter == SeqsUpTo(S, n - 1)
         IN shorter \cup {Append(s, x) : s \in {t \in shorter : Len(t) = n - 1}, x \in S}

RECURSIVE Flatten(_)
\* np.concatenate of a list of arrays along axis 0
Flatten(ss) == IF ss = <<>> THEN <<>> ELSE Head(ss) \o Flatten(Tail(ss))

Range(s) == {s[i] : i \in DOMAIN s}

\* x > t on reals n / d with positive denominators
Gt(x, t) == x[1] * t[2] > t[1] * x[2]

\* x = y on reals n / d
RatEq(x, y) == x[1] * y[2] = y[1] * x[2]

(***************************************************************************)
(* load_mnist.convert_to_one_hot                                           *)
(***************************************************************************)
\* len(np.unique(raw_target))
n_uniques(raw_target) == Cardinality(Range(raw_target))

\* numpy's index check on an axis of the given width: -width..width-1 is valid
IndexInBounds(idx, width) == idx >= -width /\ idx < width

\* numpy's wrap of a negative index; the result is a 1-based position
ColumnOf(idx, width) == (IF idx < 0 THEN idx + width ELSE idx) + 1

\* one_hot_target = zeros((len, n_uniques)); one_hot_target[arange(len), raw_target] = 1
convert_to_one_hot(raw_target) ==
    LET n == n_uniques(raw_target)
    IN IF \E i \in DOMAIN raw_target : ~IndexInBounds(raw_target[i], n)
       THEN [ok |-> FALSE, err |-> "IndexError", value |-> <<>>]
       ELSE [ok |-> TRUE, err |-> "",
             value |-> [i \in DOMAIN raw_target |->
                          [j \in 1..n |-> IF j = ColumnOf(raw_target[i], n) THEN 1 ELSE 0]]]

(***************************************************************************)
(* load_mnist.binarise                                                     *)
(***************************************************************************)
\* the default of kwargs.get('threshold', 0.5)
DefaultThreshold == <<1, 2>>

\* kwargs is the set of values bound to the keyword 'threshold' (empty or one)
threshold_of(kwargs) == IF kwargs = {} THEN DefaultThreshold ELSE CHOOSE t \in kwargs : TRUE

\* the comparison of the threshold mode inverted
binarise_threshold_mut(raw_data, threshold) ==
    [i \in DOMAIN raw_data |->
       [j \in DOMAIN raw_data[i] |-> IF Gt(threshold, raw_data[i][j]) THEN <<1, 1>> ELSE <<0, 1>>]]

\* (raw_data > threshold).astype(np.int32), elementwise on a 2-D array
binarise_threshold(raw_data, threshold) ==
    [i \in DOMAIN raw_data |->
       [j \in DOMAIN raw_data[i] |-> IF Gt(raw_data[i][j], threshold) THEN <<1, 1>> ELSE <<0, 1>>]]

\* the draws np.random.binomial(1, p) can return for one p in [0, 1]
binomial(p) ==
    IF RatEq(p, <<0, 1>>) THEN {<<0, 1>>}
    ELSE IF RatEq(p, <<1, 1>>) THEN {<<1, 1>>}
    ELSE {<<0, 1>>, <<1, 1>>}

\* np.random.binomial raises ValueError for p < 0 or p > 1
ValidProbability(p) == ~Gt(<<0, 1>>, p) /\ ~Gt(p, <<1, 1>>)

(***************************************************************************)
(* load_8schools                                                           *)
(***************************************************************************)
\* the table of the comment in load_8schools, in hundredths: school, effect, stderr
SchoolsTable ==
    << [school |-> "A", effect |-> 2839, stderr |-> 1490],
       [school |-> "B", effect |-> 794,  stderr |-> 1020],
       [school |-> "C", effect |-> -275, stderr |-> 1630],
       [school |-> "D", effect |-> 682,  stderr |-> 1100],
       [school |-> "E", effect |-> -64,  stderr |-> 940],
       [school |-> "F", effect |-> 63,   stderr |-> 1140],
       [school |-> "G", effect |-> 1801, stderr |-> 1040],
       [school |-> "H", effect |-> 1216, stderr |-> 1760] >>

\* np.array([28.39, 7.74, -2.75, 6.82, -0.64, 0.63, 18.01, 12.16]), in hundredths
estimated_effects == <<2839, 774, -275, 682, -64, 63, 1801, 1216>>

\* np.array([14.9, 10.2, 16.3, 11.0, 9.4, 11.4, 10.4, 17.6]), in hundredths
std_errors == <<1490, 1020, 1630, 1100, 940, 1140, 1040, 1760>>

load_8schools == [effect |-> estimated_effects, stderr |-> std_errors]

(***************************************************************************)
(* load_npoints                                                            *)
(***************************************************************************)
\* np.eye(n)
eye(n) == [i \in 1..n |-> [j \in 1..n |-> IF i = j THEN 1 ELSE 0]]

\* np.arange(n)
arange(n) == [i \in 1..n |-> i - 1]

\* np.repeat(a, repeats, axis=0): every element of a, repeats times in a row
repeat(a, repeats) == [k \in 1..(Len(a) * repeats) |-> a[((k - 1) \div repeats) + 1]]

\* load_npoints with the diagonal of np.eye shifted by one (np.eye(n, k=1))
load_npoints_mut(n) ==
    IF n < 0
    THEN [ok |-> FALSE, err |-> "ValueError", data |-> <<>>, target |-> <<>>]
    ELSE [ok |-> TRUE, err |-> "",
          data |-> repeat([i \in 1..n |-> [j \in 1..n |-> IF j = i + 1 THEN 1 ELSE 0]], 1),
          target |-> repeat(arange(n), 1)]

\* {'data': np.repeat(np.eye(n), 1, axis=0), 'target': np.repeat(np.arange(n), 1, axis=0)}
\* np.eye raises ValueError for a negative n
load_npoints(n) ==
    IF n < 0
    THEN [ok |-> FALSE, err |-> "ValueError", data |-> <<>>, target |-> <<>>]
    ELSE [ok |-> TRUE, err |-> "", data |-> repeat(eye(n), 1), target |-> repeat(arange(n), 1)]

(***************************************************************************)
(* The filesystem.  A directory is [exists, gz, files]: gz holds the names *)
(* of the compressed members present (without the .gz suffix) and files    *)
(* maps the name of every plain file present to its content.  An image     *)
(* file is [num, rows, cols, payload] (the header fields after the magic   *)
(* number, then the bytes after the header), a label file [num, payload]   *)
(* with the payload already read as signed bytes.                          *)
(***************************************************************************)
\* os.path.join(PROJECT_DATA_DIR, "MNIST")
mnist_path == "data/MNIST"
\* some other directory a caller may name
LocalPath == "local/MNIST"
\* the empty string given as local_data_path
EmptyPath == ""
\* local_data_path=None
NoneArg == "<None>"

image_files == <<"train-images-idx3-ubyte", "t10k-images-idx3-ubyte">>
label_files == <<"train-labels-idx1-ubyte", "t10k-labels-idx1-ubyte">>
AllFiles == Range(image_files) \cup Range(label_files)

NoDir == [exists |-> FALSE, gz |-> {}, files |-> [f \in {} |-> 0]]

\* os.path.exists: the empty path and None name nothing
exists(d, p) == p \in DOMAIN d /\ d[p].exists

\* records scaled down from the real corpus: 60000 training and 10000 test records
TrainSize == 2
TestSize == 1
\* the classes of the real corpus are 0..9
NumClasses == 2
\* rows and cols of the real corpus are 28 and 28
Rows == 1
Cols == 2
\* the split read_data_sets sets aside by default (5000 of 60000)
ValidationSize == 1
\* most records per file, and largest rows or cols, of a directory a caller supplies
MaxRecords == 2
MaxDim == 2

\* byte k of record i of a split's image file: a pattern that tells records apart
Pixel(split, i, k) == ((IF split = 1 THEN 0 ELSE 128) + 61 * i + 17 * k) % 256

\* label i of a split's label file, off shifting the class indices
LabelOf(split, i, off) == off + ((i - 1 + (split - 1)) % NumClasses)

\* the image file of a split: header count hn, a records of rows * cols bytes
ImageFile(split, hn, rows, cols, a) ==
    [num |-> hn, rows |-> rows, cols |-> cols,
     payload |-> [p \in 1..(a * rows * cols) |->
                    Pixel(split, ((p - 1) \div (rows * cols)) + 1, ((p - 1) % (rows * cols)) + 1)]]

\* the label file of a split: m labels
LabelFile(split, m, off) ==
    [num |-> m, payload |-> [i \in 1..m |-> LabelOf(split, i, off)]]

\* the four files of a directory, from one image and one label file per split
Corpus(img, lbl) ==
    [f \in AllFiles |->
       IF f = image_files[1] THEN img[1]
       ELSE IF f = image_files[2] THEN img[2]
       ELSE IF f = label_files[1] THEN lbl[1] ELSE lbl[2]]

FullDir(corpus) == [exists |-> TRUE, gz |-> {}, files |-> corpus]

\* the corpus the remote archives hold
MNIST ==
    Corpus(<<ImageFile(1, TrainSize, Rows, Cols, TrainSize), ImageFile(2, TestSize, Rows, Cols, TestSize)>>,
           <<LabelFile(1, TrainSize, 0), LabelFile(2, TestSize, 0)>>)

(***************************************************************************)
(* _load_mnist_from_file                                                   *)
(***************************************************************************)
Fail(e) == [ok |-> FALSE, err |-> e, value |-> <<>>]
Ok(v) == [ok |-> TRUE, err |-> "", value |-> v]

\* np.fromfile(...).reshape(num, -1): num rows of len / num bytes each
reshape(flat, num) ==
    IF num = 0 \/ Len(flat) % num # 0
    THEN Fail("ValueError")
    ELSE LET w == Len(flat) \div num
         IN Ok([i \in 1..num |-> [j \in 1..w |-> flat[(i - 1) * w + j]]])

\* read_labels without the header dropped: its 8 bytes are read as labels too
read_labels_mut(dir, fname) ==
    IF fname \notin DOMAIN dir.files THEN Fail("FileNotFoundError")
    ELSE Ok(<<0, 0, 8, 1, 0, 0, 0, dir.files[fname].num>> \o dir.files[fname].payload)

\* read_labels: open, drop the 8 header bytes, the rest as int8
read_labels(dir, fname) ==
    IF fname \notin DOMAIN dir.files THEN Fail("FileNotFoundError")
    ELSE Ok(dir.files[fname].payload)

\* read_images: open, drop the 16 header bytes, the rest as uint8 reshaped by num
read_images(dir, fname) ==
    IF fname \notin DOMAIN dir.files THEN Fail("FileNotFoundError")
    ELSE reshape(dir.files[fname].payload, dir.files[fname].num)

\* the second axis of a 2-D array with at least one row
Width(a) == Len(a[1])

\* np.concatenate of 2-D arrays along axis 0: the other axis has to agree
concatenate2d(arrays) ==
    IF \E i, j \in DOMAIN arrays : Width(arrays[i]) # Width(arrays[j])
    THEN Fail("ValueError")
    ELSE Ok(Flatten(arrays))

\* images / 255.
scale(images) == [i \in DOMAIN images |-> [j \in DOMAIN images[i] |-> <<images[i][j], 255>>]]

\* the reader with the label files listed test first
load_mnist_from_file_mut(dir) ==
    LET imgs == [k \in DOMAIN image_files |-> read_images(dir, image_files[k])]
        lbls == [k \in DOMAIN label_files |-> read_labels(dir, label_files[3 - k])]
        cat  == concatenate2d([k \in DOMAIN imgs |-> imgs[k].value])
    IN IF \E k \in DOMAIN imgs : ~imgs[k].ok
       THEN [ok |-> FALSE, err |-> imgs[CHOOSE k \in DOMAIN imgs : ~imgs[k].ok /\ \A l \in 1..(k - 1) : imgs[l].ok].err,
             images |-> <<>>, labels |-> <<>>]
       ELSE IF ~cat.ok THEN [ok |-> FALSE, err |-> cat.err, images |-> <<>>, labels |-> <<>>]
       ELSE IF \E k \in DOMAIN lbls : ~lbls[k].ok
       THEN [ok |-> FALSE, err |-> "FileNotFoundError", images |-> <<>>, labels |-> <<>>]
       ELSE [ok |-> TRUE, err |-> "", images |-> scale(cat.value),
             labels |-> Flatten([k \in DOMAIN lbls |-> lbls[k].value])]

\* _load_mnist_from_file: both image files, concatenated and scaled, then both label
\* files, concatenated; the first failure is the one raised
load_mnist_from_file(dir) ==
    LET imgs == [k \in DOMAIN image_files |-> read_images(dir, image_files[k])]
        lbls == [k \in DOMAIN label_files |-> read_labels(dir, label_files[k])]
        cat  == concatenate2d([k \in DOMAIN imgs |-> imgs[k].value])
    IN IF \E k \in DOMAIN imgs : ~imgs[k].ok
       THEN [ok |-> FALSE, err |-> imgs[CHOOSE k \in DOMAIN imgs : ~imgs[k].ok /\ \A l \in 1..(k - 1) : imgs[l].ok].err,
             images |-> <<>>, labels |-> <<>>]
       ELSE IF ~cat.ok THEN [ok |-> FALSE, err |-> cat.err, images |-> <<>>, labels |-> <<>>]
       ELSE IF \E k \in DOMAIN lbls : ~lbls[k].ok
       THEN [ok |-> FALSE, err |-> "FileNotFoundError", images |-> <<>>, labels |-> <<>>]
       ELSE [ok |-> TRUE, err |-> "", images |-> scale(cat.value),
             labels |-> Flatten([k \in DOMAIN lbls |-> lbls[k].value])]

(***************************************************************************)
(* input_data.read_data_sets, the tutorial reader load_mnist calls when    *)
(* the default directory is absent.  It makes the directory, fetches the   *)
(* four archives into it in DownloadOrder, and returns the corpus in       *)
(* memory as three splits: the first ValidationSize training records are   *)
(* the validation split and the rest the training split; pixels are        *)
(* scaled by 1 / 255 and labels one-hot encoded over NumClasses classes    *)
(* when one_hot is set.                                                    *)
(***************************************************************************)
DownloadOrder == <<image_files[1], label_files[1], image_files[2], label_files[2]>>

\* dense_to_one_hot of the tutorial reader: the width is the fixed number of classes
dense_to_one_hot(labels) ==
    [i \in DOMAIN labels |-> [j \in 1..NumClasses |-> IF j = labels[i] + 1 THEN 1 ELSE 0]]

read_data_sets(corpus, one_hot) ==
    LET imgs(k) == scale(reshape(corpus[image_files[k]].payload, corpus[image_files[k]].num).value)
        lbls(k) == IF one_hot THEN dense_to_one_hot(corpus[label_files[k]].payload)
                   ELSE corpus[label_files[k]].payload
        part(x, from, to) == SubSeq(x, from, to)
    IN [train      |-> [images |-> part(imgs(1), ValidationSize + 1, Len(imgs(1))),
                        labels |-> part(lbls(1), ValidationSize + 1, Len(lbls(1)))],
        validation |-> [images |-> part(imgs(1), 1, ValidationSize),
                        labels |-> part(lbls(1), 1, ValidationSize)],
        test       |-> [images |-> imgs(2), labels |-> lbls(2)]]

(***************************************************************************)
(* load_mnist.  An outcome is what one call can do: the branch taken, the  *)
(* directories read through the record reader, whether the remote fetch    *)
(* was started, the result (a dataset, or the exception raised) and the    *)
(* filesystem the call leaves.                                             *)
(***************************************************************************)
Raised(branch, reads, e, d) ==
    [branch |-> branch, reads |-> reads, ok |-> FALSE, err |-> e,
     data |-> <<>>, target |-> <<>>, disk |-> d]

\* the tail of load_mnist: if binarised, binarise(mnist['data'], mode='threshold'); return mnist
Returned(branch, reads, data, target, binarised, d) ==
    [branch |-> branch, reads |-> reads, ok |-> TRUE, err |-> "",
     data |-> IF binarised THEN binarise_threshold(data, threshold_of({})) ELSE data,
     target |-> target, disk |-> d]

\* the default directory with the archives in gz and the plain files in plain
Fetched(d, gz, plain) ==
    [d EXCEPT ![mnist_path] = [exists |-> TRUE, gz |-> gz, files |-> [f \in plain |-> MNIST[f]]]]

\* the download branch (lines 52-63): the fetch may fail after any number of archives,
\* the decompression loop at any archive of os.listdir's order, or both succeed
download(d, one_hot, binarised) ==
    LET mnist == read_data_sets(MNIST, one_hot)
    IN {Raised("download", {}, "URLError", Fetched(d, {DownloadOrder[i] : i \in 1..k}, {})) :
           k \in 0..(Len(DownloadOrder) - 1)}
       \cup {Raised("download", {}, "OSError", Fetched(d, AllFiles, done)) :
               done \in (SUBSET AllFiles) \ {AllFiles}}
       \cup {Returned("download", {},
                      mnist.train.images \o mnist.test.images \o mnist.validation.images,
                      mnist.train.labels \o mnist.test.labels \o mnist.validation.labels,
                      binarised, Fetched(d, AllFiles, AllFiles))}

\* the local branch (lines 65-74)
local(d, path, one_hot, binarised) ==
    IF exists(d, path)
    THEN LET read == load_mnist_from_file(d[path])
             hot  == convert_to_one_hot(read.labels)
         IN IF ~read.ok THEN {Raised("local", {path}, read.err, d)}
            ELSE IF one_hot /\ ~hot.ok THEN {Raised("local", {path}, hot.err, d)}
            ELSE {Returned("local", {path}, read.images,
                           IF one_hot THEN hot.value ELSE read.labels, binarised, d)}
    ELSE {Raised("local", {}, "ValueError", d)}

\* the value of `local_data_path or mnist_path`: None and the empty string are falsy
path_or_default(local_data_path) ==
    IF local_data_path \in {NoneArg, EmptyPath} THEN mnist_path ELSE local_data_path

\* load_mnist with the download test widened to any missing path
load_mnist_mut(d, local_data_path, one_hot, binarised) ==
    IF ~exists(d, path_or_default(local_data_path))
    THEN download(d, one_hot, binarised)
    ELSE local(d, path_or_default(local_data_path), one_hot, binarised)

\* load_mnist: the outcomes of one call on filesystem d
load_mnist(d, local_data_path, one_hot, binarised) ==
    IF local_data_path = NoneArg /\ ~exists(d, mnist_path)
    THEN download(d, one_hot, binarised)
    ELSE local(d, path_or_default(local_data_path), one_hot, binarised)

\* binarise: the results one call can give (mode 'sampling' draws, any other mode
\* than the two falls off the end and returns None)
binarise(raw_data, mode, kwargs) ==
    IF mode = "sampling"
    THEN IF \E i \in DOMAIN raw_data : \E j \in DOMAIN raw_data[i] : ~ValidProbability(raw_data[i][j])
         THEN {[ok |-> FALSE, err |-> "ValueError", none |-> FALSE, value |-> <<>>]}
         ELSE LET rows(i) == {r \in [DOMAIN raw_data[i] -> {<<0, 1>>, <<1, 1>>}] :
                                \A j \in DOMAIN raw_data[i] : r[j] \in binomial(raw_data[i][j])}
              IN {[ok |-> TRUE, err |-> "", none |-> FALSE, value |-> m] :
                    m \in {m \in [DOMAIN raw_data -> UNION {rows(i) : i \in DOMAIN raw_data}] :
                             \A i \in DOMAIN raw_data : m[i] \in rows(i)}}
    ELSE IF mode = "threshold"
    THEN {[ok |-> TRUE, err |-> "", none |-> FALSE,
           value |-> binarise_threshold(raw_data, threshold_of(kwargs))]}
    ELSE {[ok |-> TRUE, err |-> "", none |-> TRUE, value |-> <<>>]}

(***************************************************************************)
(* Inputs of the calls.                                                    *)
(***************************************************************************)
PathArgs == {NoneArg, EmptyPath, mnist_path, LocalPath}
DiskPaths == {mnist_path, LocalPath}
LabelVectors == SeqsUpTo(-MaxLabel..MaxLabel, MaxLabels)
\* pixel values 0, 1/2, 1, 3/2 and thresholds -1/2, 0, 1/4, 1, 3/2 (1/2 is the default)
PixelValues == {<<n, 2>> : n \in 0..3}
Thresholds == {<<-1, 2>>, <<0, 1>>, <<1, 4>>, <<1, 1>>, <<3, 2>>}
PixelArrays == {<<row>> : row \in SeqsUpTo(PixelValues, MaxPixels)}
Modes == {"sampling", "threshold", "nearest"}
LabelOffsets == {-1, 0, 1}
Defects == {"none", "train-header", "test-header", "train-labels", "test-labels"}

\* a directory of four files: split k holds a[k] records of dims[k], and at most one
\* count is off by one (an image header's, or the number of labels in a label file)
SuppliedDir(a, dims, off, defect) ==
    FullDir(Corpus(
        <<ImageFile(1, a[1] + (IF defect = "train-header" THEN 1 ELSE 0), dims[1][1], dims[1][2], a[1]),
          ImageFile(2, a[2] + (IF defect = "test-header" THEN 1 ELSE 0), dims[2][1], dims[2][2], a[2])>>,
        <<LabelFile(1, a[1] + (IF defect = "train-labels" THEN 1 ELSE 0), off),
          LabelFile(2, a[2] + (IF defect = "test-labels" THEN 1 ELSE 0), off)>>))

SuppliedDirs ==
    {SuppliedDir(a, dims, off, defect) :
        a \in (0..MaxRecords) \X (0..MaxRecords),
        dims \in ((1..MaxDim) \X (1..MaxDim)) \X ((1..MaxDim) \X (1..MaxDim)),
        off \in LabelOffsets, defect \in Defects}

(***************************************************************************)
(* Actions: one per call.                                                  *)
(***************************************************************************)
NoCall == [op |-> "none"]

LoadMnist(local_data_path, one_hot, binarised) ==
    \E o \in load_mnist(disk, local_data_path, one_hot, binarised) :
        /\ disk' = o.disk
        /\ last' = [op |-> "load_mnist", path |-> local_data_path, one_hot |-> one_hot,
                    binarised |-> binarised, before |-> disk, branch |-> o.branch,
                    reads |-> o.reads, ok |-> o.ok, err |-> o.err,
                    data |-> o.data, target |-> o.target]

LoadMnistFromFile(data_dir) ==
    /\ exists(disk, data_dir)
    /\ last' = [op |-> "_load_mnist_from_file", data_dir |-> data_dir,
                out |-> load_mnist_from_file(disk[data_dir])]
    /\ UNCHANGED disk

ConvertToOneHot(raw_target) ==
    /\ last' = [op |-> "convert_to_one_hot", raw_target |-> raw_target,
                out |-> convert_to_one_hot(raw_target)]
    /\ UNCHANGED disk

\* one call of binarise, and for the threshold mode a second call on its result
Binarise(raw_data, mode, kwargs) ==
    /\ \E o \in binarise(raw_data, mode, kwargs) :
          last' = [op |-> "binarise", raw_data |-> raw_data, mode |-> mode, kwargs |-> kwargs,
                   out |-> o,
                   again |-> IF mode = "threshold"
                             THEN binarise_threshold(o.value, threshold_of(kwargs)) ELSE <<>>]
    /\ UNCHANGED disk

Load8Schools ==
    /\ last' = [op |-> "load_8schools", out |-> load_8schools]
    /\ UNCHANGED disk

LoadNPoints(n) ==
    /\ last' = [op |-> "load_npoints", n |-> n, out |-> load_npoints(n)]
    /\ UNCHANGED disk

(***************************************************************************)
(* Spec: load_mnist called any number of times, with any arguments, on a   *)
(* filesystem where each of the two directories is absent or complete.     *)
(***************************************************************************)
SmallCorpus ==
    Corpus(<<ImageFile(1, 1, Rows, Cols, 1), ImageFile(2, 1, Rows, Cols, 1)>>,
           <<LabelFile(1, 1, 0), LabelFile(2, 1, 0)>>)

Init ==
    /\ disk \in {[p \in DiskPaths |-> IF p = mnist_path THEN dflt ELSE other] :
                   dflt \in {NoDir, FullDir(MNIST)},
                   other \in {NoDir, FullDir(MNIST), FullDir(SmallCorpus)}}
    /\ last = NoCall

Next ==
    \E local_data_path \in PathArgs, one_hot \in BOOLEAN, binarised \in BOOLEAN :
        LoadMnist(local_data_path, one_hot, binarised)

Spec == Init /\ [][Next]_vars

(***************************************************************************)
(* SpecReader: the record reader, and load_mnist's local branch, on every  *)
(* supplied directory.                                                     *)
(***************************************************************************)
InitReader ==
    /\ disk \in {[p \in DiskPaths |-> IF p = LocalPath THEN dir ELSE NoDir] : dir \in SuppliedDirs}
    /\ last = NoCall

NextReader ==
    \/ LoadMnistFromFile(LocalPath)
    \/ \E one_hot \in BOOLEAN, binarised \in BOOLEAN : LoadMnist(LocalPath, one_hot, binarised)

SpecReader == InitReader /\ [][NextReader]_vars

(***************************************************************************)
(* SpecPure: the helpers and generators that touch no file.                *)
(***************************************************************************)
InitPure ==
    /\ disk = [p \in DiskPaths |-> NoDir]
    /\ last = NoCall

NextPure ==
    \/ \E raw_target \in LabelVectors : ConvertToOneHot(raw_target)
    \/ \E raw_data \in PixelArrays, mode \in Modes, kwargs \in {{}} \cup {{t} : t \in Thresholds} :
          Binarise(raw_data, mode, kwargs)
    \/ Load8Schools
    \/ \E n \in -1..MaxN : LoadNPoints(n)

SpecPure == InitPure /\ [][NextPure]_vars

(***************************************************************************)
(* Properties.  Helpers first.                                             *)
(***************************************************************************)
RECURSIVE Sum(_)
Sum(row) == IF row = <<>> THEN 0 ELSE Head(row) + Sum(Tail(row))

\* np.argmax: the index (from 0) of the first largest entry
ArgMax(row) ==
    (CHOOSE j \in DOMAIN row :
        /\ \A l \in DOMAIN row : row[l] <= row[j]
        /\ \A l \in 1..(j - 1) : row[l] < row[j]) - 1

\* the index (from 0) of a label among the distinct labels of the vector, in order
IndexAmongDistinct(label, raw_target) == Cardinality({v \in Range(raw_target) : v < label})

InUnitInterval(x) == ~Gt(<<0, 1>>, x) /\ ~Gt(x, <<1, 1>>)
IsZeroOrOne(x) == RatEq(x, <<0, 1>>) \/ RatEq(x, <<1, 1>>)

\* every header agrees with its payload, and each image file holds as many records
\* as its label file
ValidDir(dir) ==
    /\ dir.exists
    /\ AllFiles \subseteq DOMAIN dir.files
    /\ \A k \in 1..2 :
         LET img == dir.files[image_files[k]]
             lbl == dir.files[label_files[k]]
         IN /\ Len(img.payload) = img.num * img.rows * img.cols
            /\ Len(lbl.payload) = lbl.num
            /\ img.num = lbl.num

\* record pos of an image file, scaled as the reader scales it
SourceImage(dir, k, pos) ==
    LET img == dir.files[image_files[k]]
        w   == img.rows * img.cols
    IN [j \in 1..w |-> <<img.payload[(pos - 1) * w + j], 255>>]

SourceLabel(dir, k, pos) == dir.files[label_files[k]].payload[pos]

CalledReader == last.op = "_load_mnist_from_file"
CalledLoadMnist == last.op = "load_mnist"

\* C1: whenever load_mnist is given an explicit path that does not exist, it raises
\* ValueError, whatever the flags and whether or not the default directory exists; it
\* takes no download branch, reads no directory and writes nothing.
C1_MissingExplicitPathRaises ==
    (CalledLoadMnist /\ last.path # NoneArg /\ ~exists(last.before, last.path))
        => /\ ~last.ok
           /\ last.err = "ValueError"
           /\ last.branch # "download"
           /\ last.reads = {}
           /\ disk = last.before

\* C2: for every integer label vector with k distinct values, convert_to_one_hot
\* returns one row per label, of width k, every row sums to 1, and the argmax of row i
\* is the index of label i among the distinct labels.
C2_OneHotRoundTrip ==
    last.op = "convert_to_one_hot"
        => /\ last.out.ok
           /\ Len(last.out.value) = Len(last.raw_target)
           /\ \A i \in DOMAIN last.out.value :
                 /\ Len(last.out.value[i]) = n_uniques(last.raw_target)
                 /\ Sum(last.out.value[i]) = 1
                 /\ ArgMax(last.out.value[i]) = IndexAmongDistinct(last.raw_target[i], last.raw_target)

\* C3 as stated: for every valid directory the record reader returns images and labels
\* of the same length, and every image row has the rows * cols of the source images.
C3_ValidDirLoads ==
    (CalledReader /\ ValidDir(disk[last.data_dir]))
        => /\ last.out.ok
           /\ Len(last.out.images) = Len(last.out.labels)
           /\ \A i \in DOMAIN last.out.images : \A k \in 1..2 :
                 Len(last.out.images[i]) =
                     disk[last.data_dir].files[image_files[k]].rows
                         * disk[last.data_dir].files[image_files[k]].cols

\* both image files hold at least one record and have the same rows * cols
Concatenable(dir) ==
    /\ \A k \in 1..2 : dir.files[image_files[k]].num >= 1
    /\ dir.files[image_files[1]].rows * dir.files[image_files[1]].cols
         = dir.files[image_files[2]].rows * dir.files[image_files[2]].cols

\* C3 amended: for every valid directory whose two image files each hold at least one
\* record and have the same rows * cols, the record reader returns images and labels of
\* the same length with every row of length rows * cols; and whenever load_mnist's
\* local branch returns a dataset for such a directory, len(data) = len(target) and
\* every data row has that length.
C3_ValidConcatenableDirLoads ==
    /\ (CalledReader /\ ValidDir(disk[last.data_dir]) /\ Concatenable(disk[last.data_dir]))
          => /\ last.out.ok
             /\ Len(last.out.images) = Len(last.out.labels)
             /\ \A i \in DOMAIN last.out.images :
                   Len(last.out.images[i]) =
                       disk[last.data_dir].files[image_files[1]].rows
                           * disk[last.data_dir].files[image_files[1]].cols
    /\ (CalledLoadMnist /\ last.branch = "local" /\ last.ok
          /\ ValidDir(disk[last.path]) /\ Concatenable(disk[last.path]))
          => /\ Len(last.data) = Len(last.target)
             /\ \A i \in DOMAIN last.data :
                   Len(last.data[i]) =
                       disk[last.path].files[image_files[1]].rows
                           * disk[last.path].files[image_files[1]].cols

\* a valid directory of two non-empty splits was read
C3_Witness ==
    /\ CalledReader
    /\ ValidDir(disk[last.data_dir])
    /\ Concatenable(disk[last.data_dir])
    /\ last.out.ok
    /\ Len(last.out.images) = 2 * MaxRecords
    /\ Len(last.out.images[1]) = MaxDim * MaxDim

\* C9: for a valid directory, record i of the combined images and record i of the
\* combined labels both come from the training files at position i when i is at most
\* the number of training records, and from the test files at position i minus that
\* number otherwise.
C9_TrainThenTestAligned ==
    (CalledReader /\ ValidDir(disk[last.data_dir]) /\ last.out.ok)
        => LET dir == disk[last.data_dir]
               nt  == dir.files[image_files[1]].num
           IN /\ Len(last.out.images) = nt + dir.files[image_files[2]].num
              /\ \A i \in DOMAIN last.out.images :
                    LET k   == IF i <= nt THEN 1 ELSE 2
                        pos == IF i <= nt THEN i ELSE i - nt
                    IN /\ last.out.images[i] = SourceImage(dir, k, pos)
                       /\ last.out.labels[i] = SourceLabel(dir, k, pos)

\* both splits hold records, and the two label files differ
C9_Witness ==
    /\ CalledReader
    /\ ValidDir(disk[last.data_dir])
    /\ last.out.ok
    /\ disk[last.data_dir].files[image_files[1]].num = MaxRecords
    /\ disk[last.data_dir].files[image_files[2]].num = MaxRecords
    /\ disk[last.data_dir].files[label_files[1]].payload
         # disk[last.data_dir].files[label_files[2]].payload

\* C4: the dataset a successful download branch returns equals, record for record and
\* in the same order, the dataset the next load_mnist call with the same flags returns
\* from the files the download left in the default directory.
C4_DownloadEqualsLocalLoad ==
    (CalledLoadMnist /\ last.branch = "download" /\ last.ok)
        => \A o \in load_mnist(disk, NoneArg, last.one_hot, last.binarised) :
              /\ o.ok
              /\ o.branch = "local"
              /\ o.data = last.data
              /\ o.target = last.target

\* C5: load_mnist takes the download branch exactly when no path is given and the
\* default directory does not exist; and whenever the path in use (the given one, or
\* the default when none is given) exists, it reads that directory through the record
\* reader, downloads nothing and leaves the filesystem as it was.
C5_DownloadOnlyWithoutPathAndDefault ==
    CalledLoadMnist
        => /\ (last.branch = "download")
                 <=> (last.path = NoneArg /\ ~exists(last.before, mnist_path))
           /\ LET used == IF last.path = NoneArg THEN mnist_path ELSE last.path
              IN exists(last.before, used)
                    => /\ last.branch = "local"
                       /\ last.reads = {used}
                       /\ disk = last.before

\* a download has populated the default directory and a later call without a path read it
C5_Witness ==
    /\ CalledLoadMnist
    /\ last.path = NoneArg
    /\ last.branch = "local"
    /\ last.reads = {mnist_path}
    /\ last.ok
    /\ disk[mnist_path].gz = AllFiles

\* C6 as stated: for pixels in [0, 1] and a threshold below 1, binarising twice gives what
\* binarising once gives, and every pixel that is already 0 or 1 is left unchanged.
C6_IdempotentBelowOne ==
    (/\ last.op = "binarise"
     /\ last.mode = "threshold"
     /\ \A j \in DOMAIN last.raw_data[1] : InUnitInterval(last.raw_data[1][j])
     /\ Gt(<<1, 1>>, threshold_of(last.kwargs)))
        => /\ last.again = last.out.value
           /\ \A j \in DOMAIN last.raw_data[1] :
                 IsZeroOrOne(last.raw_data[1][j])
                    => RatEq(last.out.value[1][j], last.raw_data[1][j])

\* C6 amended: for pixels in [0, 1] and a threshold below 1, binarising twice gives what
\* binarising once gives; and when the threshold is also at least 0, every pixel that is
\* already 0 or 1 is left unchanged.
C6_IdempotentFixedFromZero ==
    (/\ last.op = "binarise"
     /\ last.mode = "threshold"
     /\ \A j \in DOMAIN last.raw_data[1] : InUnitInterval(last.raw_data[1][j])
     /\ Gt(<<1, 1>>, threshold_of(last.kwargs)))
        => /\ last.again = last.out.value
           /\ ~Gt(<<0, 1>>, threshold_of(last.kwargs))
                 => \A j \in DOMAIN last.raw_data[1] :
                       IsZeroOrOne(last.raw_data[1][j])
                          => RatEq(last.out.value[1][j], last.raw_data[1][j])

\* a pixel strictly between 0 and 1 above the threshold 1/4 beside a pixel that is 0
C6_Witness ==
    /\ last.op = "binarise"
    /\ last.mode = "threshold"
    /\ last.kwargs = {<<1, 4>>}
    /\ last.raw_data = << << <<1, 2>>, <<0, 2>> >> >>
    /\ last.out.value = << << <<1, 1>>, <<0, 1>> >> >>
    /\ last.again = last.out.value

\* C7: for every positive n, load_npoints(n) returns target 0..n-1 and n data rows of
\* length n, row i holding a 1 at position i and 0 elsewhere, so no two rows are equal.
C7_NPointsIdentity ==
    (last.op = "load_npoints" /\ last.n >= 1)
        => /\ last.out.ok
           /\ Len(last.out.target) = last.n
           /\ \A i \in 1..last.n : last.out.target[i] = i - 1
           /\ Len(last.out.data) = last.n
           /\ \A i \in 1..last.n :
                 /\ Len(last.out.data[i]) = last.n
                 /\ \A j \in 1..last.n : last.out.data[i][j] = IF j = i THEN 1 ELSE 0
           /\ \A i, j \in 1..last.n : i # j => last.out.data[i] # last.out.data[j]

\* load_npoints(4) returned the 4 x 4 identity and 0..3
C7_Witness ==
    /\ last.op = "load_npoints"
    /\ last.n = 4
    /\ last.out.data = <<(<<1, 0, 0, 0>>), (<<0, 1, 0, 0>>), (<<0, 0, 1, 0>>), (<<0, 0, 0, 1>>)>>
    /\ last.out.target = <<0, 1, 2, 3>>

\* C8: load_8schools returns effect and stderr of length 8 that equal, school by school
\* in the order A to H, the columns of the table in the function's comment; effect[0] is
\* 28.39 and stderr[0] is 14.9.
C8_SchoolsMatchTable ==
    last.op = "load_8schools"
        => /\ Len(last.out.effect) = 8
           /\ Len(last.out.stderr) = 8
           /\ \A i \in 1..8 :
                 /\ last.out.effect[i] = SchoolsTable[i].effect
                 /\ last.out.stderr[i] = SchoolsTable[i].stderr
           /\ last.out.effect[1] = 2839
           /\ last.out.stderr[1] = 1490

\* C10: after any calls of load_mnist, failed ones included, the default directory, when
\* it exists, holds all four plain files, and no local read of it fails on a missing file.
C10_DefaultDirComplete ==
    /\ exists(disk, mnist_path) => AllFiles \subseteq DOMAIN disk[mnist_path].files
    /\ (CalledLoadMnist /\ last.reads = {mnist_path}) => last.err # "FileNotFoundError"

====
